---- MODULE Spec2Model ----
(***************************************************************************)
(* A model of ThreadPool (src/src/util/ThreadPool.cpp): a fixed set of     *)
(* worker threads running ThreadPool::work over a shared run queue that is *)
(* guarded by queueLock and the condition variable hasTask, with the       *)
(* atomic flag shouldStop set by waitForAll and by the destructor.         *)
(*                                                                         *)
(* Threads: the workers 1..MaxWorkers, the thread Owner that constructs,   *)
(* uses and destroys the pool, and a second thread Client that only calls  *)
(* submitTask.  A task may call submitTask too, on the worker thread that  *)
(* runs it.  Every statement of the source that touches shared state is    *)
(* one step, so that the steps of different threads interleave as the      *)
(* statements of the program do.                                           *)
(*                                                                         *)
(* The module also models the containers the repository's tests exercise:  *)
(* ecx::stl::Vector (src/unnamed/part_001), the earlier ecx::Vector        *)
(* (src/src/stl/Vector.hpp) and v2::UniquePointer                          *)
(* (src/src/stl/UniquePointer.hpp).  They share nothing with the pool and  *)
(* have specifications of their own.                                       *)
(***************************************************************************)
EXTENDS Integers, Sequences, FiniteSets, TLC

\* Bounds of the model.
MaxWorkers == 2      \* largest `concurrency` given to the constructor
MaxCalls   == 3      \* submitTask calls made in one run
LiveWorkers == 1     \* the same two bounds for the runs that check progress
LiveCalls   == 2
NestCalls   == 2      \* submitTask calls in the runs whose tasks call it too
MaxArg      == 3      \* largest argument of Vector(n), reserve and resize
MaxObjects  == 7      \* objects constructed in the storage of one Vector
MaxPushes   == 4      \* push_back calls on the ecx::Vector
MaxPointers == 3      \* UniquePointers of one program
MaxHeap     == 3      \* objects that program allocates with new

Workers == 1..MaxWorkers
Owner   == -1
Client  == -2
Users   == {Owner, Client}      \* the threads outside the pool
Callers == Users \cup Workers    \* the threads that may run submitTask
NoTask  == 0         \* an empty std::function
Free    == 0         \* queueLock held by nobody

VARIABLES
    budget,       \* the submitTask calls the pool's users make in this run
    concurrency,  \* the constructor's argument
    workers,      \* number of thread handles in the vector `workers`
    shouldStop,   \* std::atomic<bool> shouldStop
    runqueue,     \* std::queue of tasks, front first
    queueLock,    \* the thread holding queueLock, or Free
    waiters,      \* the threads blocked on hasTask
    pc,           \* each worker's position in work()
    task,         \* each worker's local `task`
    opc,          \* the owner's position
    joinIdx,      \* the handle the running join loop is at
    joinCalls,    \* per handle, how often join() was invoked on it (capped at 2)
    spc,          \* each caller's position in submitTask
    arg,          \* each caller's pending submitTask argument
    meta,         \* per enqueued task: what it does and when it was submitted
    started,      \* history: per task, how often a worker began to execute it
    finished,     \* history: per task, how often its execution ended
    waited,       \* history: whether waitForAll was ever called
    nesting,      \* whether the tasks of this program call submitTask themselves
    stlVec,       \* an ecx::stl::Vector and the objects built in its storage
    ecxVec,       \* an ecx::Vector: its size_ and capacity_
    uptr          \* the UniquePointers of a program and the objects they point to

poolVars == <<budget, concurrency, workers, shouldStop, runqueue, queueLock, waiters,
              pc, task, opc, joinIdx, joinCalls, spc, arg, meta, started, finished,
              waited>>

\* What no operation of a pool changes.
apart == <<nesting, stlVec, ecxVec, uptr>>

vars == <<poolVars, apart>>

NoArg == [throws |-> FALSE, late |-> FALSE]

nullptr == 0

\* No ecx::stl::Vector has been constructed.  `elems` numbers the objects in
\* data_[0 .. size_-1]; `dtors` counts, per object ever constructed in the
\* vector's storage, the calls of its destructor; `pushes` and `plain` record
\* the push_back calls and whether nothing else was called since Vector().
NoVector ==
    [life |-> "none", size_ |-> 0, capacity_ |-> 0, data_ |-> nullptr,
     elems |-> <<>>, dtors |-> <<>>, pushes |-> 0, plain |-> FALSE]

\* Vector.hpp line 68: Vector() : size_(0), capacity_(0), data_(nullptr).
EmptyVector == [size_ |-> 0, capacity_ |-> 0, pushes |-> 0, plain |-> TRUE]

Pointers == 1..MaxPointers

\* No UniquePointer has been constructed and nothing allocated.  `deleted`
\* counts, per allocated object, the calls of the deleter on it; `raw` holds
\* the pointers release() gave back to the program.
NoPointers ==
    [life |-> [u \in Pointers |-> "none"], ptr_ |-> [u \in Pointers |-> nullptr],
     deleted |-> <<>>, raw |-> {}]

\* ThreadPool(size_t concurrency) : shouldStop(false), entered with any count
\* up to n, in a program that calls submitTask k times, from its tasks too if
\* `nest`, and that has not built a container yet.
InitFor(n, k, nest) ==
    /\ nesting = nest
    /\ stlVec = NoVector
    /\ ecxVec = EmptyVector
    /\ uptr = NoPointers
    /\ budget = k
    /\ concurrency \in 0..n
    /\ workers = 0
    /\ shouldStop = FALSE
    /\ runqueue = <<>>
    /\ queueLock = Free
    /\ waiters = {}
    /\ pc = [w \in Workers |-> "none"]
    /\ task = [w \in Workers |-> NoTask]
    /\ opc = "ctor"
    /\ joinIdx = 1
    /\ joinCalls = [w \in Workers |-> 0]
    /\ spc = [c \in Callers |-> "idle"]
    /\ arg = [c \in Callers |-> NoArg]
    /\ meta = <<>>
    /\ started = [t \in 1..k |-> 0]
    /\ finished = [t \in 1..k |-> 0]
    /\ waited = FALSE

Init == InitFor(MaxWorkers, MaxCalls, FALSE)

-----------------------------------------------------------------------------
\* History helpers.

Tasks == 1..Len(meta)

Queued(t) == \E i \in DOMAIN runqueue : runqueue[i] = t
Holders(t) == {w \in Workers : task[w] = t}

\* Calls of submitTask begun so far.
CallsBegun == Len(meta) + Cardinality({c \in Callers : spc[c] \in {"lock", "emplace"}})

-----------------------------------------------------------------------------
\* The condition variable hasTask.

\* hasTask.notify_one(): wakes one blocked thread, if there is one.
NotifyOne ==
    IF waiters = {}
    THEN UNCHANGED <<waiters, pc>>
    ELSE \E w \in waiters :
            /\ waiters' = waiters \ {w}
            /\ pc' = [pc EXCEPT ![w] = "wakeup"]

\* hasTask.notify_all(): wakes every blocked thread.
NotifyAll ==
    /\ waiters' = {}
    /\ pc' = [w \in Workers |-> IF w \in waiters THEN "wakeup" ELSE pc[w]]

-----------------------------------------------------------------------------
\* ThreadPool::work, lines 34-75.

\* A predicate that looks at the flag only.
WaitPredicateStopOnly == shouldStop

\* A wait without a predicate: whoever wakes up goes on.
WaitPredicateSkipped == TRUE

\* line 45: the wait predicate.
WaitPredicate == shouldStop \/ runqueue # <<>>

\* A worker that stops as soon as the flag is set, whatever is queued.
ShouldExitDiscarding == shouldStop

\* line 49: the exit test.
ShouldExit == shouldStop /\ runqueue = <<>>

\* A dequeue that takes the newest task.
FrontNewest == runqueue[Len(runqueue)]

\* line 55: the task taken from the queue.
Front == Head(runqueue)

\* A dequeue that forgets the pop.
PoppedNothing == runqueue

\* line 56: the queue after the pop.
Popped == Tail(runqueue)

\* line 41: std::unique_lock lock(queueLock).
WorkerLock(w) ==
    /\ pc[w] = "lock"
    /\ queueLock = Free
    /\ queueLock' = w
    /\ pc' = [pc EXCEPT ![w] = "pred"]
    /\ UNCHANGED <<apart, budget, concurrency, workers, shouldStop, runqueue, waiters, task,
                   opc, joinIdx, joinCalls, spc, arg, meta, started, finished, waited>>

\* lines 44-46: wait(lock, pred) evaluates the predicate with the lock held.
WorkerPredicate(w) ==
    /\ pc[w] = "pred"
    /\ pc' = [pc EXCEPT ![w] = IF WaitPredicate THEN "check" ELSE "block"]
    /\ UNCHANGED <<apart, budget, concurrency, workers, shouldStop, runqueue, queueLock,
                   waiters, task, opc, joinIdx, joinCalls, spc, arg, meta, started,
                   finished, waited>>

\* line 44: the predicate was false; wait releases the lock and blocks (one
\* atomic step of the condition variable).
WorkerBlock(w) ==
    /\ pc[w] = "block"
    /\ queueLock' = Free
    /\ waiters' = waiters \cup {w}
    /\ pc' = [pc EXCEPT ![w] = "waiting"]
    /\ UNCHANGED <<apart, budget, concurrency, workers, shouldStop, runqueue, task, opc,
                   joinIdx, joinCalls, spc, arg, meta, started, finished, waited>>

\* line 44: a blocked thread may wake without a notification.
SpuriousWake(w) ==
    /\ pc[w] = "waiting"
    /\ w \in waiters
    /\ waiters' = waiters \ {w}
    /\ pc' = [pc EXCEPT ![w] = "wakeup"]
    /\ UNCHANGED <<apart, budget, concurrency, workers, shouldStop, runqueue, queueLock, task,
                   opc, joinIdx, joinCalls, spc, arg, meta, started, finished, waited>>

\* line 44: a woken thread takes the lock again and re-evaluates the predicate.
WorkerReacquire(w) ==
    /\ pc[w] = "wakeup"
    /\ queueLock = Free
    /\ queueLock' = w
    /\ pc' = [pc EXCEPT ![w] = "pred"]
    /\ UNCHANGED <<apart, budget, concurrency, workers, shouldStop, runqueue, waiters, task,
                   opc, joinIdx, joinCalls, spc, arg, meta, started, finished, waited>>

\* An exit test that goes round the loop instead of returning.
AfterExitTestLoops == "lock"

\* line 50: `return` ends work() and with it the thread.
AfterExitTest == "exited"

\* lines 49-58: return when stopping with an empty queue (the lock is released
\* by the unique_lock's destructor), else move the front task out and pop it.
WorkerCheck(w) ==
    /\ pc[w] = "check"
    /\ IF ShouldExit
       THEN /\ pc' = [pc EXCEPT ![w] = AfterExitTest]
            /\ queueLock' = Free
            /\ UNCHANGED <<runqueue, task>>
       ELSE /\ IF runqueue # <<>>
               THEN /\ task' = [task EXCEPT ![w] = Front]
                    /\ runqueue' = Popped
               ELSE UNCHANGED <<runqueue, task>>
            /\ pc' = [pc EXCEPT ![w] = "unlock"]
            /\ UNCHANGED queueLock
    /\ UNCHANGED <<apart, budget, concurrency, workers, shouldStop, waiters, opc, joinIdx,
                   joinCalls, spc, arg, meta, started, finished, waited>>

\* A worker that keeps the lock while it runs the task.
WorkerUnlockKeeping(w) ==
    /\ pc[w] = "unlock"
    /\ pc' = [pc EXCEPT ![w] = "call"]
    /\ UNCHANGED <<apart, budget, concurrency, workers, shouldStop, runqueue, queueLock,
                   waiters, task, opc, joinIdx, joinCalls, spc, arg, meta, started,
                   finished, waited>>

\* line 58: the end of the critical section.
WorkerUnlock(w) ==
    /\ pc[w] = "unlock"
    /\ queueLock' = Free
    /\ pc' = [pc EXCEPT ![w] = "call"]
    /\ UNCHANGED <<apart, budget, concurrency, workers, shouldStop, runqueue, waiters, task,
                   opc, joinIdx, joinCalls, spc, arg, meta, started, finished, waited>>

\* A worker that does not call its task once the pool is stopping.
CallableUnlessStopping(w) == task[w] # NoTask /\ ~shouldStop

\* line 60: if (task).
Callable(w) == task[w] # NoTask

\* lines 60-64: if (task) task(); otherwise the loop body ends, and `task`
\* with it.
WorkerCall(w) ==
    /\ pc[w] = "call"
    /\ IF Callable(w)
       THEN /\ started' = [started EXCEPT ![task[w]] = @ + 1]
            /\ pc' = [pc EXCEPT ![w] = "exec"]
            /\ UNCHANGED task
       ELSE /\ pc' = [pc EXCEPT ![w] = "lock"]
            /\ task' = [task EXCEPT ![w] = NoTask]
            /\ UNCHANGED started
    /\ UNCHANGED <<apart, budget, concurrency, workers, shouldStop, runqueue, queueLock,
                   waiters, opc, joinIdx, joinCalls, spc, arg, meta,
                   finished, waited>>

\* A worker that the exception of a task ends.
AfterCatchDies == "exited"

\* Where a worker goes after the handlers of lines 65-72 caught an exception.
AfterCatch == "lock"

\* line 64: task() returns, any submitTask call it made having returned; the
\* loop body ends and `task` goes out of scope.
TaskReturn(w) ==
    /\ pc[w] = "exec"
    /\ spc[w] = "idle"
    /\ ~meta[task[w]].throws
    /\ finished' = [finished EXCEPT ![task[w]] = @ + 1]
    /\ task' = [task EXCEPT ![w] = NoTask]
    /\ pc' = [pc EXCEPT ![w] = "lock"]
    /\ UNCHANGED <<apart, budget, concurrency, workers, shouldStop, runqueue, queueLock,
                   waiters, opc, joinIdx, joinCalls, spc, arg, meta, started,
                   waited>>

\* lines 64-72: task() throws; the exception is caught and reported.
TaskThrow(w) ==
    /\ pc[w] = "exec"
    /\ spc[w] = "idle"
    /\ meta[task[w]].throws
    /\ finished' = [finished EXCEPT ![task[w]] = @ + 1]
    /\ task' = [task EXCEPT ![w] = NoTask]
    /\ pc' = [pc EXCEPT ![w] = AfterCatch]
    /\ UNCHANGED <<apart, budget, concurrency, workers, shouldStop, runqueue, queueLock,
                   waiters, opc, joinIdx, joinCalls, spc, arg, meta, started,
                   waited>>

-----------------------------------------------------------------------------
\* ThreadPool::submitTask, lines 102-111.

\* Whether thread c may call submitTask now: the owner between its other
\* calls, the client while the pool exists and is not being destroyed, a
\* worker from inside the task it is executing.
MayCall(c) ==
    IF c = Owner
    THEN opc = "idle"
    ELSE IF c = Client
    THEN opc \in {"idle", "wfa_stop", "wfa_notify", "wfa_join"}
    ELSE nesting /\ pc[c] = "exec"

\* A thread calls submitTask(f); f either returns or throws when run.
SubmitBegin(c, throws) ==
    /\ spc[c] = "idle"
    /\ MayCall(c)
    /\ CallsBegun < budget
    /\ spc' = [spc EXCEPT ![c] = "lock"]
    /\ arg' = [arg EXCEPT ![c] = [throws |-> throws, late |-> shouldStop]]
    /\ UNCHANGED <<apart, budget, concurrency, workers, shouldStop, runqueue, queueLock,
                   waiters, pc, task, opc, joinIdx, joinCalls, meta, started,
                   finished, waited>>

\* A submitTask that goes on without taking the lock.
SubmitLockMissing(c) ==
    /\ spc[c] = "lock"
    /\ spc' = [spc EXCEPT ![c] = "emplace"]
    /\ UNCHANGED <<apart, budget, concurrency, workers, shouldStop, runqueue, queueLock,
                   waiters, pc, task, opc, joinIdx, joinCalls, arg, meta,
                   started, finished, waited>>

\* line 105: std::unique_lock lock(queueLock).
SubmitLock(c) ==
    /\ spc[c] = "lock"
    /\ queueLock = Free
    /\ queueLock' = c
    /\ spc' = [spc EXCEPT ![c] = "emplace"]
    /\ UNCHANGED <<apart, budget, concurrency, workers, shouldStop, runqueue, waiters, pc,
                   task, opc, joinIdx, joinCalls, arg, meta, started, finished, waited>>

\* An emplace at the front of the queue.
EmplacedInFront(t) == <<t>> \o runqueue

\* line 107: the queue after runqueue.emplace(f) of task t.
Emplaced(t) == Append(runqueue, t)

\* A submitTask that drops the task when the pool is stopping.
SubmitEmplaceUnlessStopped(c) ==
    /\ spc[c] = "emplace"
    /\ IF shouldStop
       THEN UNCHANGED <<runqueue, meta>>
       ELSE /\ runqueue' = Emplaced(Len(meta) + 1)
            /\ meta' = Append(meta, [throws |-> arg[c].throws, late |-> arg[c].late,
                                     stopped |-> shouldStop])
    /\ arg' = [arg EXCEPT ![c] = NoArg]
    /\ spc' = [spc EXCEPT ![c] = "unlock"]
    /\ UNCHANGED <<apart, budget, concurrency, workers, shouldStop, queueLock, waiters,
                   pc, task, opc, joinIdx, joinCalls, started, finished, waited>>

\* line 107: runqueue.emplace(f).  Tasks are numbered in the order of emplace.
SubmitEmplace(c) ==
    /\ spc[c] = "emplace"
    /\ runqueue' = Emplaced(Len(meta) + 1)
    /\ meta' = Append(meta, [throws |-> arg[c].throws, late |-> arg[c].late,
                             stopped |-> shouldStop])
    /\ arg' = [arg EXCEPT ![c] = NoArg]
    /\ spc' = [spc EXCEPT ![c] = "unlock"]
    /\ UNCHANGED <<apart, budget, concurrency, workers, shouldStop, queueLock, waiters, pc,
                   task, opc, joinIdx, joinCalls, started, finished, waited>>

\* A submitTask that returns with the lock still held.
SubmitUnlockMissing(c) ==
    /\ spc[c] = "unlock"
    /\ spc' = [spc EXCEPT ![c] = "notify"]
    /\ UNCHANGED <<apart, budget, concurrency, workers, shouldStop, runqueue, queueLock,
                   waiters, pc, task, opc, joinIdx, joinCalls, arg, meta, started,
                   finished, waited>>

\* line 108: the end of the critical section.
SubmitUnlock(c) ==
    /\ spc[c] = "unlock"
    /\ queueLock' = Free
    /\ spc' = [spc EXCEPT ![c] = "notify"]
    /\ UNCHANGED <<apart, budget, concurrency, workers, shouldStop, runqueue, waiters, pc,
                   task, opc, joinIdx, joinCalls, arg, meta, started, finished, waited>>

\* A submitTask that wakes every blocked thread.
SubmitWakeAll == NotifyAll

\* A submitTask that wakes nobody.
SubmitWakeMissing == UNCHANGED <<waiters, pc>>

\* line 110: hasTask.notify_one().
SubmitWake == NotifyOne

\* line 110, and the return of submitTask.
SubmitNotify(c) ==
    /\ spc[c] = "notify"
    /\ SubmitWake
    /\ spc' = [spc EXCEPT ![c] = "idle"]
    /\ UNCHANGED <<apart, budget, concurrency, workers, shouldStop, runqueue, queueLock, task,
                   opc, joinIdx, joinCalls, arg, meta, started, finished, waited>>

-----------------------------------------------------------------------------
\* Constructor, waitForAll and destructor, lines 80-97 and 113-120.

\* A constructor whose loop ends one turn early.
CtorSpawnOneShort ==
    /\ opc = "ctor"
    /\ IF workers + 1 < concurrency
       THEN /\ workers' = workers + 1
            /\ pc' = [pc EXCEPT ![workers + 1] = "lock"]
            /\ UNCHANGED opc
       ELSE /\ opc' = "idle"
            /\ UNCHANGED <<workers, pc>>
    /\ UNCHANGED <<apart, budget, concurrency, shouldStop, runqueue, queueLock, waiters,
                   task, joinIdx, joinCalls, spc, arg, meta, started, finished, waited>>

\* A constructor that starts one worker even when asked for none.
CtorSpawnAtLeastOne ==
    /\ opc = "ctor"
    /\ IF workers < concurrency \/ workers = 0
       THEN /\ workers' = workers + 1
            /\ pc' = [pc EXCEPT ![workers + 1] = "lock"]
            /\ UNCHANGED opc
       ELSE /\ opc' = "idle"
            /\ UNCHANGED <<workers, pc>>
    /\ UNCHANGED <<apart, budget, concurrency, shouldStop, runqueue, queueLock, waiters,
                   task, joinIdx, joinCalls, spc, arg, meta, started, finished, waited>>

\* lines 82-84: workers.emplace_back(&ThreadPool::work, this), once per turn of
\* the loop; the constructor returns when the loop ends.
CtorSpawn ==
    /\ opc = "ctor"
    /\ IF workers < concurrency
       THEN /\ workers' = workers + 1
            /\ pc' = [pc EXCEPT ![workers + 1] = "lock"]
            /\ UNCHANGED opc
       ELSE /\ opc' = "idle"
            /\ UNCHANGED <<workers, pc>>
    /\ UNCHANGED <<apart, budget, concurrency, shouldStop, runqueue, queueLock, waiters, task,
                   joinIdx, joinCalls, spc, arg, meta, started, finished, waited>>

\* The owner calls waitForAll; line 114: shouldStop = true.
WaitForAllStop ==
    /\ opc = "idle"
    /\ spc[Owner] = "idle"
    /\ waited' = TRUE
    /\ shouldStop' = TRUE
    /\ opc' = "wfa_notify"
    /\ UNCHANGED <<apart, budget, concurrency, workers, runqueue, queueLock, waiters, pc,
                   task, joinIdx, joinCalls, spc, arg, meta, started, finished>>

\* line 116: hasTask.notify_all().
WaitForAllNotify ==
    /\ opc = "wfa_notify"
    /\ NotifyAll
    /\ joinIdx' = 1
    /\ opc' = "wfa_join"
    /\ UNCHANGED <<apart, budget, concurrency, workers, shouldStop, runqueue, queueLock, task,
                   joinCalls, spc, arg, meta, started, finished, waited>>

\* std::thread::join on handle j: a joinable handle blocks until its thread
\* has finished; a handle that was joined before makes join throw
\* std::system_error.  `onThrow` is where the exception takes the owner.
Join(j, onThrow, onDone) ==
    IF joinIdx > workers
    THEN /\ opc' = onDone
         /\ UNCHANGED <<joinIdx, joinCalls>>
    ELSE IF joinCalls[j] > 0
    THEN /\ joinCalls' = [joinCalls EXCEPT ![j] = 2]
         /\ opc' = onThrow
         /\ UNCHANGED joinIdx
    ELSE /\ pc[j] = "exited"
         /\ joinCalls' = [joinCalls EXCEPT ![j] = 1]
         /\ joinIdx' = joinIdx + 1
         /\ UNCHANGED opc

\* A waitForAll that clears the flag when it returns.
WaitForAllJoinResetting ==
    /\ opc = "wfa_join"
    /\ Join(joinIdx, "threw", "idle")
    /\ shouldStop' = (opc' # "idle" /\ shouldStop)
    /\ UNCHANGED <<apart, budget, concurrency, workers, runqueue, queueLock,
                   waiters, pc, task, spc, arg, meta, started, finished, waited>>

\* lines 117-119: worker.join() for each handle; the exception of a second
\* join leaves waitForAll.
WaitForAllJoin ==
    /\ opc = "wfa_join"
    /\ Join(joinIdx, "threw", "idle")
    /\ UNCHANGED <<apart, budget, concurrency, workers, shouldStop, runqueue, queueLock,
                   waiters, pc, task, spc, arg, meta, started, finished, waited>>

\* The pool goes out of scope, normally or while the exception thrown by
\* waitForAll unwinds the owner's stack; line 88: shouldStop = true.
DtorStop ==
    /\ opc \in {"idle", "threw"}
    /\ \A c \in Users : spc[c] = "idle"
    /\ shouldStop' = TRUE
    /\ opc' = "dtor_notify"
    /\ UNCHANGED <<apart, budget, concurrency, workers, runqueue, queueLock, waiters, pc,
                   task, joinIdx, joinCalls, spc, arg, meta, started, finished, waited>>

\* line 91: hasTask.notify_all().
DtorNotify ==
    /\ opc = "dtor_notify"
    /\ NotifyAll
    /\ joinIdx' = 1
    /\ opc' = "dtor_join"
    /\ UNCHANGED <<apart, budget, concurrency, workers, shouldStop, runqueue, queueLock, task,
                   joinCalls, spc, arg, meta, started, finished, waited>>

\* lines 94-96: worker.join() for each handle; an exception leaving the
\* destructor calls std::terminate.
DtorJoin ==
    /\ opc = "dtor_join"
    /\ Join(joinIdx, "terminated", "destroyed")
    /\ UNCHANGED <<apart, budget, concurrency, workers, shouldStop, runqueue, queueLock,
                   waiters, pc, task, spc, arg, meta, started, finished, waited>>

-----------------------------------------------------------------------------

Next ==
    \/ \E w \in Workers : WorkerLock(w)
    \/ \E w \in Workers : WorkerPredicate(w)
    \/ \E w \in Workers : WorkerBlock(w)
    \/ \E w \in Workers : SpuriousWake(w)
    \/ \E w \in Workers : WorkerReacquire(w)
    \/ \E w \in Workers : WorkerCheck(w)
    \/ \E w \in Workers : WorkerUnlock(w)
    \/ \E w \in Workers : WorkerCall(w)
    \/ \E w \in Workers : TaskReturn(w)
    \/ \E w \in Workers : TaskThrow(w)
    \/ \E c \in Callers, throws \in BOOLEAN : SubmitBegin(c, throws)
    \/ \E c \in Callers : SubmitLock(c)
    \/ \E c \in Callers : SubmitEmplace(c)
    \/ \E c \in Callers : SubmitUnlock(c)
    \/ \E c \in Callers : SubmitNotify(c)
    \/ CtorSpawn
    \/ WaitForAllStop
    \/ WaitForAllNotify
    \/ WaitForAllJoin
    \/ DtorStop
    \/ DtorNotify
    \/ DtorJoin

Spec == Init /\ [][Next]_vars

\* The scheduling the claims about progress assume: every thread that can take
\* a step eventually takes it, a thread that can take queueLock again and again
\* eventually gets it, and a running task ends.  Nothing obliges a thread to
\* call submitTask, waitForAll or the destructor, and nothing obliges the
\* condition variable to wake a thread spuriously.  The programs of LiveSpec
\* call submitTask from outside the pool only.
WorkerStep(w) ==
    \/ WorkerPredicate(w) \/ WorkerBlock(w) \/ WorkerCheck(w)
    \/ WorkerUnlock(w) \/ WorkerCall(w) \/ TaskReturn(w) \/ TaskThrow(w)

WorkerAcquire(w) == WorkerLock(w) \/ WorkerReacquire(w)

SubmitStep(c) == SubmitEmplace(c) \/ SubmitUnlock(c) \/ SubmitNotify(c)

OwnerStep ==
    \/ CtorSpawn \/ WaitForAllNotify \/ WaitForAllJoin \/ DtorNotify \/ DtorJoin

Fairness ==
    /\ \A w \in Workers : WF_vars(WorkerStep(w)) /\ SF_vars(WorkerAcquire(w))
    /\ \A c \in Users : WF_vars(SubmitStep(c)) /\ SF_vars(SubmitLock(c))
    /\ WF_vars(OwnerStep)

LiveInit == InitFor(LiveWorkers, LiveCalls, FALSE)

LiveSpec == LiveInit /\ [][Next]_vars /\ Fairness

\* The programs whose tasks call submitTask on the pool that runs them.
NestInit == InitFor(MaxWorkers, NestCalls, TRUE)

NestSpec == NestInit /\ [][Next]_vars

-----------------------------------------------------------------------------
\* ecx::stl::Vector<T>, src/unnamed/part_001, with T a class type such as
\* LifetimeTracker.  The operations are functions of the vector v.

\* lines 302-304: allocate(n), a buffer that was not handed out before.
allocate(v) == v.data_ + 1

\* n objects constructed one after the other at the end of elems.
construct(v, n) ==
    [v EXCEPT !.elems = v.elems \o [i \in 1..n |-> Len(v.dtors) + i],
              !.dtors = v.dtors \o [i \in 1..n |-> 0]]

\* std::destroy / destroy_n / destroy_at on elems[from .. Len(elems)]: one
\* destructor call on each, and the objects are elements no more.
destroy(v, from) ==
    [v EXCEPT !.dtors = [o \in DOMAIN v.dtors |->
                            IF \E i \in from..Len(v.elems) : v.elems[i] = o
                            THEN v.dtors[o] + 1 ELSE v.dtors[o]],
              !.elems = SubSeq(v.elems, 1, from - 1)]

\* lines 193-215: reserve.  uninitialized_move constructs size_ objects in the
\* new buffer; the old buffer goes to ::operator delete with the moved-from
\* objects still in it, no destructor having been called on them.
reserve(v, newCapacity) ==
    IF v.capacity_ >= newCapacity
    THEN v
    ELSE LET moved == IF v.data_ # nullptr
                      THEN construct([v EXCEPT !.elems = <<>>], v.size_)
                      ELSE v
         IN  [moved EXCEPT !.data_ = allocate(v), !.capacity_ = newCapacity]

\* lines 227-241: resize(newSize).
resize(v, newSize) ==
    IF v.size_ = newSize
    THEN v
    ELSE IF newSize < v.size_
    THEN [destroy(v, newSize + 1) EXCEPT !.size_ = newSize]
    ELSE [construct(reserve(v, newSize), newSize - v.size_) EXCEPT !.size_ = newSize]

\* line 258 (and 266): the test that makes push_back grow the buffer.
full(v) == v.size_ >= v.capacity_

\* lines 257-271: push_back(elem).
push_back(v) ==
    LET grown == IF full(v)
                 THEN reserve(v, IF v.capacity_ = 0 THEN 1 ELSE v.capacity_ * 2)
                 ELSE v
    IN  [construct(grown, 1) EXCEPT !.size_ = v.size_ + 1, !.pushes = v.pushes + 1]

\* line 283: pop_back().
pop_back(v) == [destroy(v, v.size_) EXCEPT !.size_ = v.size_ - 1]

\* The vector after an operation that is not push_back, if the operation
\* stays within the objects of one run.
StlStep(v) ==
    /\ Len(v.dtors) <= MaxObjects
    /\ stlVec' = [v EXCEPT !.plain = FALSE]
    /\ UNCHANGED <<poolVars, nesting, ecxVec, uptr>>

\* line 107: Vector().
VectorDefault ==
    /\ stlVec.life = "none"
    /\ stlVec' = [NoVector EXCEPT !.life = "live", !.plain = TRUE]
    /\ UNCHANGED <<poolVars, nesting, ecxVec, uptr>>

\* lines 109-111: Vector(n), n default-constructed elements.
VectorSized(n) ==
    /\ stlVec.life = "none"
    /\ StlStep(construct([NoVector EXCEPT !.life = "live", !.size_ = n,
                                          !.capacity_ = n,
                                          !.data_ = allocate(NoVector)], n))

Reserve(n) ==
    /\ stlVec.life = "live"
    /\ StlStep(reserve(stlVec, n))

Resize(n) ==
    /\ stlVec.life = "live"
    /\ StlStep(resize(stlVec, n))

PushBack ==
    /\ stlVec.life = "live"
    /\ Len(push_back(stlVec).dtors) <= MaxObjects
    /\ stlVec' = push_back(stlVec)
    /\ UNCHANGED <<poolVars, nesting, ecxVec, uptr>>

\* pop_back on an empty vector is outside its contract.
PopBack ==
    /\ stlVec.life = "live"
    /\ stlVec.size_ > 0
    /\ StlStep(pop_back(stlVec))

\* lines 156-159: ~Vector().
VectorDtor ==
    /\ stlVec.life = "live"
    /\ stlVec' = [destroy(stlVec, 1) EXCEPT !.life = "destroyed"]
    /\ UNCHANGED <<poolVars, nesting, ecxVec, uptr>>

-----------------------------------------------------------------------------
\* ecx::Vector<T>, src/src/stl/Vector.hpp: size_ and capacity_ under reserve
\* and push_back.

\* Vector.hpp lines 149-177: reserve.
ecx_reserve(v, newCapacity) ==
    IF v.capacity_ >= newCapacity
    THEN v
    ELSE [v EXCEPT !.capacity_ = newCapacity]

\* Vector.hpp line 209 (and 216): the test that makes push_back grow the buffer.
ecx_full(v) == v.size_ + 1 >= v.capacity_

\* Vector.hpp lines 208-220: push_back(elem).
ecx_push_back(v) ==
    LET grown == IF ecx_full(v)
                 THEN ecx_reserve(v, IF v.capacity_ = 0 THEN 1 ELSE v.capacity_ * 2)
                 ELSE v
    IN  [grown EXCEPT !.size_ = v.size_ + 1, !.pushes = v.pushes + 1]

EcxReserve(n) ==
    /\ ecxVec' = [ecx_reserve(ecxVec, n) EXCEPT !.plain = FALSE]
    /\ UNCHANGED <<poolVars, nesting, stlVec, uptr>>

EcxPushBack ==
    /\ ecxVec.pushes < MaxPushes
    /\ ecxVec' = ecx_push_back(ecxVec)
    /\ UNCHANGED <<poolVars, nesting, stlVec, uptr>>

\* A program that builds one vector of each class and works on them.
VectorNext ==
    \/ VectorDefault
    \/ \E n \in 0..MaxArg : VectorSized(n)
    \/ \E n \in 0..MaxArg : Reserve(n)
    \/ \E n \in 0..MaxArg : Resize(n)
    \/ PushBack
    \/ PopBack
    \/ VectorDtor
    \/ \E n \in 0..MaxArg : EcxReserve(n)
    \/ EcxPushBack

NoPool == InitFor(0, 0, FALSE)

VectorSpec == NoPool /\ [][VectorNext]_vars

-----------------------------------------------------------------------------
\* v2::UniquePointer<T>, src/src/stl/UniquePointer.hpp lines 69-139, with the
\* default deleter.  The operations are functions of the heap h.

\* The heap after the deleter ran on p.
deleter(h, p) == [h EXCEPT !.deleted[p] = @ + 1]

\* A release that leaves the pointer where it was.
releaseKeeping(h, u) == h

\* line 115: release(): std::exchange(ptr_, nullptr).  The pointer it returns
\* is h.ptr_[u].
release(h, u) == [h EXCEPT !.ptr_[u] = nullptr]

\* lines 105-113: reset(p).
reset(h, u, p) ==
    LET temp == h.ptr_[u]
        set  == [h EXCEPT !.ptr_[u] = p]
    IN  IF temp # nullptr THEN deleter(set, temp) ELSE set

\* The pointers a program may hand to a UniquePointer: nullptr, one that
\* release() gave back to it, or the result of a new-expression.
Fresh == Len(uptr.deleted) + 1

Passable == {nullptr} \cup uptr.raw \cup (IF Fresh <= MaxHeap THEN {Fresh} ELSE {})

\* The heap once the program has given p away.
Given(h, p) ==
    [h EXCEPT !.raw = @ \ {p},
              !.deleted = IF p = Len(@) + 1 THEN Append(@, 0) ELSE @]

\* lines 81-83: UniquePointer(ptr).
PointerCtor(u, p) ==
    /\ uptr.life[u] = "none"
    /\ p \in Passable
    /\ uptr' = [Given(uptr, p) EXCEPT !.life[u] = "live", !.ptr_[u] = p]
    /\ UNCHANGED <<poolVars, nesting, stlVec, ecxVec>>

\* lines 89-90: UniquePointer(UniquePointer&& other) : ptr_(other.release()).
PointerMoveCtor(u, other) ==
    /\ uptr.life[u] = "none"
    /\ uptr.life[other] = "live"
    /\ uptr' = [release(uptr, other) EXCEPT !.life[u] = "live",
                                            !.ptr_[u] = uptr.ptr_[other]]
    /\ UNCHANGED <<poolVars, nesting, stlVec, ecxVec>>

\* lines 92-101: operator=(UniquePointer&& other).
PointerMoveAssign(u, other) ==
    /\ uptr.life[u] = "live"
    /\ uptr.life[other] = "live"
    /\ uptr' = IF u = other
               THEN uptr
               ELSE reset(release(uptr, other), u, uptr.ptr_[other])
    /\ UNCHANGED <<poolVars, nesting, stlVec, ecxVec>>

\* The program calls reset(p).
PointerReset(u, p) ==
    /\ uptr.life[u] = "live"
    /\ p \in Passable
    /\ uptr' = reset(Given(uptr, p), u, p)
    /\ UNCHANGED <<poolVars, nesting, stlVec, ecxVec>>

\* The program calls release() and keeps the pointer.
PointerRelease(u) ==
    /\ uptr.life[u] = "live"
    /\ uptr' = [release(uptr, u) EXCEPT !.raw = @ \cup ({uptr.ptr_[u]} \ {nullptr})]
    /\ UNCHANGED <<poolVars, nesting, stlVec, ecxVec>>

\* line 103: ~UniquePointer() { reset(); }
PointerDtor(u) ==
    /\ uptr.life[u] = "live"
    /\ uptr' = [reset(uptr, u, nullptr) EXCEPT !.life[u] = "dead"]
    /\ UNCHANGED <<poolVars, nesting, stlVec, ecxVec>>

\* The program deletes a pointer it got from release() (tests, line 263).
RawDelete(p) ==
    /\ p \in uptr.raw
    /\ uptr' = [deleter(uptr, p) EXCEPT !.raw = @ \ {p}]
    /\ UNCHANGED <<poolVars, nesting, stlVec, ecxVec>>

PointerNext ==
    \/ \E u \in Pointers, p \in 0..MaxHeap : PointerCtor(u, p)
    \/ \E u, other \in Pointers : PointerMoveCtor(u, other)
    \/ \E u, other \in Pointers : PointerMoveAssign(u, other)
    \/ \E u \in Pointers, p \in 0..MaxHeap : PointerReset(u, p)
    \/ \E u \in Pointers : PointerRelease(u)
    \/ \E u \in Pointers : PointerDtor(u)
    \/ \E p \in 1..MaxHeap : RawDelete(p)

PointerSpec == NoPool /\ [][PointerNext]_vars

-----------------------------------------------------------------------------
\* Properties.

\* C1: in a pool with at least one worker, every task enqueued before shutdown
\* is initiated (shouldStop still false) is eventually executed to its end.
C1_SubmittedTasksRun ==
    \A t \in 1..LiveCalls :
        (concurrency >= 1 /\ t \in Tasks /\ ~meta[t].stopped) ~> (finished[t] = 1)

C1_Witness ==
    /\ concurrency >= 1
    /\ waited
    /\ \E t \in Tasks : ~meta[t].stopped /\ finished[t] = 1

\* C2: no task is executed more than once, and every enqueued task is in
\* exactly one place: once in the queue, held by one worker, or finished.
C2_ExactlyOnce ==
    \A t \in Tasks :
        /\ started[t] <= 1
        /\ finished[t] <= 1
        /\ Cardinality({i \in DOMAIN runqueue : runqueue[i] = t})
             + Cardinality(Holders(t)) + finished[t] = 1

C2_Witness ==
    /\ concurrency = 2
    /\ \E t, u, v \in Tasks :
          Queued(t) /\ Holders(u) # {} /\ started[u] = 1 /\ finished[v] = 1

\* C3: a worker whose task throws catches the exception and goes back to the
\* top of its loop, and every task enqueued (before shutdown) after a throwing
\* task is still executed.
AfterThrowing(b) == \E a \in Tasks : a < b /\ meta[a].throws

C3_FailureIsolated ==
    /\ [][\A w \in Workers : TaskThrow(w) => pc'[w] = "lock"]_vars
    /\ \A b \in 1..LiveCalls :
          (concurrency >= 1 /\ b \in Tasks /\ AfterThrowing(b)
             /\ ~meta[b].stopped) ~> (finished[b] = 1)

C3_Witness ==
    /\ concurrency = 1
    /\ \E a, b \in Tasks :
          a < b /\ meta[a].throws /\ finished[a] = 1 /\ finished[b] = 1

\* C4: waitForAll, called (for the first time) on a pool that never got a
\* task, returns, and when it has returned no worker is running.
NeverSubmitted == CallsBegun = 0 /\ \A c \in Callers : spc[c] = "idle"

FirstShutdown == \A w \in Workers : joinCalls[w] = 0

C4_WaitForAllReturns ==
    /\ (opc = "wfa_notify" /\ FirstShutdown /\ NeverSubmitted)
          ~> ((opc = "idle" /\ waited) \/ ~NeverSubmitted)
    /\ [](opc = "idle" /\ waited => \A w \in 1..workers : pc[w] = "exited")

\* C5: no lost wake-up at shutdown: once the shutdown path has set shouldStop
\* and issued notify_all and waits in join, no worker is blocked on hasTask.
C5_NoLostWakeup ==
    opc \in {"wfa_join", "dtor_join"} => waiters = {}

\* C6: a submitTask call made after shouldStop was set is rejected: its task
\* is not added to the queue and never executed.
C6_LateSubmitRejected ==
    \A t \in Tasks : ~meta[t].late

\* C7: when waitForAll returns on a pool with at least one worker, the queue is
\* empty, every task enqueued before the call has finished and every worker
\* has exited.
C7_WaitForAllDrains ==
    [][(opc = "wfa_join" /\ opc' = "idle" /\ concurrency >= 1) =>
          /\ runqueue' = <<>>
          /\ \A t \in Tasks : ~meta[t].stopped => finished'[t] = 1
          /\ \A w \in 1..workers : pc'[w] = "exited"]_vars

\* C8: with exactly one worker, a task enqueued before another one has
\* finished by the time the other one starts.
C8_SingleWorkerFifo ==
    concurrency = 1 =>
        \A a, b \in Tasks : (a < b /\ started[b] >= 1) => finished[a] >= 1

C8_Witness ==
    /\ concurrency = 1
    /\ Len(meta) >= 3
    /\ \A t \in Tasks : finished[t] = 1

\* C9: no worker handle that has been joined is joined again.
C9_NoSecondJoin ==
    \A w \in Workers : joinCalls[w] <= 1

\* C10: when the destructor of a pool with at least one worker returns, and
\* waitForAll was never called, every enqueued task has been executed, none is
\* left in the queue, and every worker has exited and has been joined.
C10_DestructorDrains ==
    (opc = "destroyed" /\ ~waited /\ concurrency >= 1) =>
        /\ runqueue = <<>>
        /\ \A t \in Tasks : finished[t] = 1
        /\ \A w \in 1..workers : pc[w] = "exited" /\ joinCalls[w] = 1
        /\ workers = concurrency

C10_Witness ==
    /\ opc = "destroyed"
    /\ ~waited
    /\ concurrency = 2
    /\ Len(meta) >= 2
    /\ \E t \in Tasks : meta[t].throws

\* C11: a worker leaves its loop only while it holds queueLock with shouldStop
\* true and the queue empty; a worker that finds the queue non-empty takes the
\* front (oldest) task and pops it, whether or not shouldStop is true.
C11_ExitOnlyWhenDrained ==
    [][\A w \in Workers :
          /\ (pc[w] # "exited" /\ pc'[w] = "exited") =>
                (queueLock = w /\ shouldStop /\ runqueue = <<>>)
          /\ (pc[w] = "check" /\ pc'[w] # "check" /\ runqueue # <<>>) =>
                /\ pc'[w] = "unlock"
                /\ task'[w] = Head(runqueue)
                /\ runqueue' = Tail(runqueue)]_vars

C11_Witness ==
    /\ \E w \in Workers : pc[w] = "exited"
    /\ \E t \in Tasks : meta[t].stopped /\ started[t] = 1

\* C12: in a pool with at least one worker, every task enqueued while
\* shouldStop is false is eventually taken out of the queue, shutdown or not;
\* and while shouldStop is false the queue is never non-empty with every worker
\* blocked on hasTask and no notify_one still to come.
NotifyPending == \E c \in Callers : spc[c] \in {"unlock", "notify"}

SomeoneWillLook ==
    (opc # "ctor" /\ concurrency >= 1 /\ ~shouldStop /\ runqueue # <<>>) =>
        \/ \E w \in 1..workers : pc[w] # "waiting"
        \/ NotifyPending

C12_NoTaskLeftAsleep ==
    /\ \A t \in 1..LiveCalls :
          (concurrency >= 1 /\ t \in Tasks /\ ~meta[t].stopped)
             ~> (t \in Tasks /\ ~Queued(t))
    /\ []SomeoneWillLook

C12_Witness ==
    /\ concurrency >= 1
    /\ ~shouldStop
    /\ ~waited
    /\ \A w \in 1..workers : pc[w] = "waiting"
    /\ \E t \in Tasks : finished[t] = 1

\* C13: once the constructor has returned and as long as shutdown has not been
\* initiated, exactly `concurrency` worker threads are alive, however many
\* tasks have thrown.
Alive == {w \in Workers : pc[w] \notin {"none", "exited"}}

C13_WorkerCountKept ==
    (opc # "ctor" /\ ~shouldStop) => Cardinality(Alive) = concurrency

C13_Witness ==
    /\ concurrency = 2
    /\ ~shouldStop
    /\ Cardinality({t \in Tasks : meta[t].throws /\ finished[t] = 1}) >= 2

\* C14: a worker that sees shouldStop true and the queue empty at its exit
\* test ends, and an ended worker stays ended: it never blocks on hasTask,
\* takes the lock, dequeues or executes again, whatever is submitted later.
C14_ExitIsFinal ==
    [][\A w \in Workers :
          /\ (pc[w] = "check" /\ shouldStop /\ runqueue = <<>> /\ pc'[w] # "check")
                => pc'[w] = "exited"
          /\ pc[w] = "exited" =>
                /\ pc'[w] = "exited"
                /\ task'[w] = NoTask
                /\ w \notin waiters'
                /\ queueLock' # w]_vars

C14_Witness ==
    /\ concurrency >= 1
    /\ \A w \in 1..workers : pc[w] = "exited"
    /\ \E t \in Tasks : Queued(t) /\ meta[t].late
    /\ \A c \in Callers : spc[c] = "idle"

\* C15: shouldStop starts false and, once true, stays true.
C15_StopNeverReset ==
    /\ shouldStop = FALSE
    /\ [][shouldStop => shouldStop']_vars

C15_Witness ==
    /\ shouldStop
    /\ waited
    /\ opc = "destroyed"
    /\ \E t \in Tasks : meta[t].late

\* C16: a thread is at a statement that reads or modifies runqueue (the wait
\* predicate, the exit test and dequeue, the emplace) only while it holds
\* queueLock, at most one thread is inside such a section at a time, and the
\* queue changes only in steps taken with the lock held.
WorkersInside == {w \in Workers : pc[w] \in {"pred", "block", "check", "unlock"}}

CallersInside == {c \in Callers : spc[c] \in {"emplace", "unlock"}}

C16_QueueOnlyUnderLock ==
    /\ [](/\ \A th \in WorkersInside \cup CallersInside : queueLock = th
          /\ Cardinality(WorkersInside \cup CallersInside) <= 1)
    /\ [][runqueue' # runqueue =>
             (queueLock # Free /\ queueLock' = queueLock)]_vars

C16_Witness ==
    /\ \E c \in Callers : spc[c] = "emplace"
    /\ \E w \in Workers : pc[w] = "lock"
    /\ \E w \in Workers : pc[w] = "wakeup"
    /\ \E c \in Callers : spc[c] = "lock"

\* C17: a submitTask call appends exactly one task to the back of the queue,
\* with the lock held, then releases the lock, then issues one notify_one,
\* which wakes exactly one blocked worker if there is one and nobody else.
C17_OneTaskOneSignal ==
    [][\A c \in Callers :
          /\ (spc[c] = "emplace" /\ spc'[c] # "emplace") =>
                /\ spc'[c] = "unlock"
                /\ queueLock = c
                /\ Len(runqueue') = Len(runqueue) + 1
                /\ SubSeq(runqueue', 1, Len(runqueue)) = runqueue
                /\ runqueue'[Len(runqueue')] = Len(meta')
                /\ Len(meta') = Len(meta) + 1
          /\ (spc[c] = "unlock" /\ spc'[c] # "unlock") =>
                (spc'[c] = "notify" /\ queueLock' = Free)
          /\ (spc[c] = "notify" /\ spc'[c] # "notify") =>
                /\ spc'[c] = "idle"
                /\ queueLock # c
                /\ runqueue' = runqueue
                /\ IF waiters = {}
                   THEN waiters' = {} /\ pc' = pc
                   ELSE \E w \in waiters :
                           /\ waiters' = waiters \ {w}
                           /\ pc' = [pc EXCEPT ![w] = "wakeup"]]_vars

C17_Witness ==
    /\ concurrency = 2
    /\ Len(meta) = 1
    /\ runqueue # <<>>
    /\ \A c \in Callers : spc[c] = "idle"
    /\ \E w \in Workers : pc[w] = "wakeup"
    /\ \E w \in Workers : w \in waiters

\* C18: tasks leave the queue in the order they were enqueued: the queue holds
\* them oldest first, and a task is out of the queue only if every task
\* enqueued before it is.
Dequeued(t) == t \in Tasks /\ ~Queued(t)

C18_FifoDequeue ==
    /\ \A i, j \in DOMAIN runqueue : i < j => runqueue[i] < runqueue[j]
    /\ \A a, b \in Tasks : (a < b /\ Dequeued(b)) => Dequeued(a)

C18_Witness ==
    /\ concurrency = 2
    /\ Holders(1) # {}
    /\ Holders(2) # {}
    /\ Queued(3)

\* C19: completion order is not fixed by submission order: a task can finish
\* while a task enqueued before it has not (the witness), and this happens
\* only in a pool with two or more workers, while the earlier task is in the
\* hands of another worker.
FinishedOutOfOrder(a, b) == a < b /\ finished[b] = 1 /\ finished[a] = 0

C19_ReorderOnlyAcrossWorkers ==
    \A a, b \in Tasks :
        FinishedOutOfOrder(a, b) => (concurrency >= 2 /\ Holders(a) # {})

C19_Witness ==
    /\ concurrency >= 2
    /\ \E a, b \in Tasks : FinishedOutOfOrder(a, b) /\ started[a] = 1

\* C20: a worker gives up a task it dequeued only by executing it to its end
\* (return or throw), whether or not shutdown begins meanwhile; join returns
\* for a worker only when it holds no task; and every dequeued task is
\* eventually executed to its end.
C20_DequeuedTaskRuns ==
    /\ [][\A w \in Workers : task[w] # NoTask =>
             \/ task'[w] = task[w]
             \/ /\ task'[w] = NoTask
                /\ pc[w] = "exec"
                /\ finished'[task[w]] = finished[task[w]] + 1]_vars
    /\ [](\A w \in Workers :
             joinCalls[w] >= 1 => (pc[w] = "exited" /\ task[w] = NoTask))
    /\ \A t \in 1..LiveCalls :
          (t \in Tasks /\ Holders(t) # {}) ~> (finished[t] = 1)

C20_Witness ==
    /\ opc \in {"wfa_join", "dtor_join"}
    /\ \E w \in Workers :
          /\ joinIdx = w
          /\ pc[w] = "exec"
          /\ ~meta[task[w]].stopped

\* C21: a thread inside submitTask is never blocked on hasTask; it can always
\* take its next step, except that it takes the lock only when the lock is
\* free; and every call that was begun returns, whatever the workers do.
SubmitCanMove(c) ==
    /\ spc[c] = "lock" => (ENABLED SubmitLock(c) <=> queueLock = Free)
    /\ spc[c] \in {"emplace", "unlock", "notify"} => ENABLED SubmitStep(c)

C21_SubmitReturns ==
    /\ [](\A c \in Callers : spc[c] # "idle" => (c \notin waiters /\ SubmitCanMove(c)))
    /\ \A c \in Users : (spc[c] # "idle") ~> (spc[c] = "idle")

C21_Witness ==
    /\ concurrency >= 1
    /\ opc # "ctor"
    /\ \A w \in 1..workers : pc[w] = "exited"
    /\ \E c \in Users : spc[c] = "notify"

\* C22: the constructor starts the workers 1..concurrency and no others: when
\* it has returned exactly `concurrency` threads have been started, each in
\* work() (or through with it), and that stays so.
Started == {w \in Workers : pc[w] # "none"}

C22_ExactlyNWorkers ==
    /\ Started = 1..workers
    /\ workers <= concurrency
    /\ opc # "ctor" => workers = concurrency

C22_Witness ==
    /\ concurrency = 2
    /\ opc = "idle"
    /\ waited
    /\ Started = {1, 2}
    /\ Len(meta) >= 1

\* C23: in a pool constructed with 0 workers every submitted task is enqueued
\* and stays in the queue unexecuted, and waitForAll and the destructor go
\* through without blocking or throwing while tasks are queued.
C23_NoWorkersNoExecution ==
    concurrency = 0 =>
        /\ runqueue = [t \in Tasks |-> t]
        /\ \A t \in Tasks : started[t] = 0 /\ finished[t] = 0
        /\ \A c \in Callers : spc[c] = "emplace" => ENABLED SubmitEmplace(c)
        /\ opc \notin {"threw", "terminated"}
        /\ opc \in {"wfa_notify", "wfa_join", "dtor_notify", "dtor_join"}
              => ENABLED OwnerStep

C23_Witness ==
    /\ concurrency = 0
    /\ opc = "destroyed"
    /\ waited
    /\ Len(runqueue) = MaxCalls

\* C27: submitTask enqueues whatever the stop flag says: once every worker has
\* exited, a submitTask call still appends its task, no task is started any
\* more and nothing leaves the queue.
AllExited == opc # "ctor" /\ \A w \in 1..workers : pc[w] = "exited"

C27_OrphanedTaskStays ==
    [][AllExited =>
          /\ AllExited'
          /\ started' = started
          /\ Len(runqueue') >= Len(runqueue)
          /\ SubSeq(runqueue', 1, Len(runqueue)) = runqueue
          /\ \A c \in Callers : (spc[c] = "emplace" /\ spc'[c] # "emplace") =>
                /\ Len(meta') = Len(meta) + 1
                /\ runqueue' = Append(runqueue, Len(meta'))]_vars

C27_Witness ==
    /\ concurrency >= 1
    /\ AllExited
    /\ opc = "terminated"
    /\ \E t \in Tasks : Queued(t) /\ meta[t].late /\ started[t] = 0

\* C28: a task enqueued with shouldStop already true, while some worker has
\* not exited, is executed to its end; the last worker exits only when every
\* task enqueued so far has finished, and join passes a handle only when its
\* worker has exited.
C28_LateTaskStillRuns ==
    /\ \A t \in 1..LiveCalls :
          (t \in Tasks /\ meta[t].stopped /\ Queued(t)
             /\ \E w \in 1..workers : pc[w] # "exited") ~> (finished[t] = 1)
    /\ [][\A w \in Workers :
             (pc[w] # "exited" /\ pc'[w] = "exited"
                /\ \A v \in 1..workers : pc'[v] = "exited")
                => \A t \in Tasks : finished[t] = 1]_vars
    /\ [](\A w \in Workers : joinCalls[w] >= 1 => pc[w] = "exited")

C28_Witness ==
    /\ opc = "wfa_join"
    /\ joinIdx = 1
    /\ pc[1] = "exec"
    /\ meta[task[1]].stopped

\* C29: a worker is at its exit test only with the lock held and the wait
\* predicate true, so that it leaves the test either by exiting or by taking
\* the front of a non-empty queue; a woken worker takes the lock and evaluates
\* the predicate again, and blocks again when the queue is empty and
\* shouldStop false.
C29_NoDequeueFromEmpty ==
    /\ [](\A w \in Workers :
             /\ pc[w] = "check" => (queueLock = w /\ (shouldStop \/ runqueue # <<>>))
             /\ pc[w] = "block" => (queueLock = w /\ runqueue = <<>>)
             /\ pc[w] = "unlock" => task[w] # NoTask)
    /\ [][\A w \in Workers :
             /\ (pc[w] = "check" /\ pc'[w] # "check") =>
                   \/ pc'[w] = "exited" /\ runqueue = <<>>
                   \/ /\ runqueue # <<>>
                      /\ task'[w] = Head(runqueue)
                      /\ runqueue' = Tail(runqueue)
             /\ (pc[w] = "wakeup" /\ pc'[w] # "wakeup") =>
                   (pc'[w] = "pred" /\ queueLock' = w)
             /\ (pc[w] = "pred" /\ pc'[w] # "pred") =>
                   pc'[w] = IF shouldStop \/ runqueue # <<>> THEN "check" ELSE "block"
             /\ (pc[w] = "block" /\ pc'[w] # "block") =>
                   (pc'[w] = "waiting" /\ w \in waiters')]_vars

C29_Witness ==
    /\ ~shouldStop
    /\ runqueue = <<>>
    /\ \A c \in Callers : spc[c] = "idle"
    /\ \E w, v \in Workers : pc[w] = "wakeup" /\ pc[v] = "exec" /\ started[1] = 1
    /\ Len(meta) = 1

\* C30: a worker thread holds queueLock only from the wait predicate to the
\* end of the dequeue, never while its task runs (unless the task itself is
\* inside submitTask); a task that calls submitTask finds the lock free or in
\* the hands of a thread that can go on and release it.
InDequeue(w) == pc[w] \in {"pred", "block", "check", "unlock"}

InEmplace(c) == spc[c] \in {"emplace", "unlock"}

HolderCanMove ==
    /\ queueLock \in Workers /\ InDequeue(queueLock) => ENABLED WorkerStep(queueLock)
    /\ queueLock \in Callers /\ InEmplace(queueLock) => ENABLED SubmitStep(queueLock)

C30_NoLockWhileExecuting ==
    /\ \A w \in Workers :
          /\ queueLock = w => (InDequeue(w) \/ (pc[w] = "exec" /\ InEmplace(w)))
          /\ InDequeue(w) => spc[w] = "idle"
          /\ spc[w] = "lock" => (queueLock # w /\ SubmitCanMove(w))
    /\ queueLock # Free => (queueLock \in Callers /\ HolderCanMove)

C30_Witness ==
    /\ nesting
    /\ \E w, v \in Workers :
          /\ w # v
          /\ pc[w] = "exec" /\ spc[w] = "notify"
          /\ pc[v] = "exec" /\ task[v] = 2

\* C31: the tasks that have been started and have not ended are never more
\* than `concurrency`; each of them is in the hands of exactly one worker, a
\* thread the constructor started, and no worker has two of them.
Executing == {t \in Tasks : started[t] > finished[t]}

Busy == {w \in Workers : pc[w] = "exec"}

C31_AtMostNExecuting ==
    /\ Cardinality(Executing) <= concurrency
    /\ Busy \subseteq 1..concurrency
    /\ Cardinality(Executing) = Cardinality(Busy)
    /\ \A t \in Executing : Cardinality({w \in Busy : task[w] = t}) = 1

C31_Witness ==
    /\ concurrency = 2
    /\ Cardinality(Executing) = 2
    /\ Queued(3)
    /\ ~shouldStop

-----------------------------------------------------------------------------
\* Properties of the containers.

\* C24: every object constructed in the storage of a Vector has had its
\* destructor called exactly once when the Vector is destroyed, and never more
\* than once before; resize to a smaller size calls the destructor of exactly
\* the (size - newSize) trailing elements.
Trailing(n) == {stlVec.elems[i] : i \in (n + 1)..stlVec.size_}

C24_DestroyedExactlyOnce ==
    /\ [](\A o \in DOMAIN stlVec.dtors :
             /\ stlVec.dtors[o] <= 1
             /\ stlVec.life = "destroyed" => stlVec.dtors[o] = 1)
    /\ [][\A n \in 0..MaxArg : (Resize(n) /\ n < stlVec.size_) =>
             /\ Cardinality(Trailing(n)) = stlVec.size_ - n
             /\ \A o \in DOMAIN stlVec.dtors :
                   stlVec'.dtors[o] = stlVec.dtors[o] + (IF o \in Trailing(n) THEN 1 ELSE 0)]_vars

\* C25: push_back changes the capacity only when size = capacity, to 1 from 0
\* and to twice the capacity otherwise, and adds 1 to the size; after k >= 1
\* push_backs on a Vector() the size is k and the capacity the smallest power
\* of two >= k; the size never exceeds the capacity.  For both Vector classes.
PowerOfTwo(c) == \E e \in 0..c : 2^e = c

SmallestPowerOfTwo(c, k) ==
    /\ PowerOfTwo(c)
    /\ c >= k
    /\ \A d \in 1..(c - 1) : PowerOfTwo(d) => d < k

GrowsWhenFull(v, after) ==
    after.pushes # v.pushes =>
        /\ after.size_ = v.size_ + 1
        /\ after.capacity_ # v.capacity_ =>
              /\ v.size_ = v.capacity_
              /\ after.capacity_ = IF v.capacity_ = 0 THEN 1 ELSE 2 * v.capacity_

PushedOnly(v) ==
    /\ v.size_ <= v.capacity_
    /\ (v.plain /\ v.pushes >= 1) =>
          (v.size_ = v.pushes /\ SmallestPowerOfTwo(v.capacity_, v.pushes))

C25_PushBackGrowth ==
    /\ [](PushedOnly(stlVec) /\ PushedOnly(ecxVec))
    /\ [][GrowsWhenFull(stlVec, stlVec') /\ GrowsWhenFull(ecxVec, ecxVec')]_vars

\* C26: a move construction or move assignment from another UniquePointer
\* leaves the destination with the source's pointer and the source null, and
\* calls the deleter once on what the destination held and on nothing else; a
\* self-move-assignment changes nothing; no object is held by two live
\* UniquePointers, or by one and by the program, or held after it was
\* deleted, and none is deleted twice.
Live == {u \in Pointers : uptr.life[u] = "live"}

Heap == DOMAIN uptr.deleted

Moved(u, other) ==
    /\ uptr'.ptr_[u] = uptr.ptr_[other]
    /\ uptr'.ptr_[other] = nullptr
    /\ \A x \in Pointers \ {u, other} : uptr'.ptr_[x] = uptr.ptr_[x]
    /\ \A o \in Heap :
          uptr'.deleted[o] = uptr.deleted[o]
             + (IF uptr.life[u] = "live" /\ uptr.ptr_[u] = o THEN 1 ELSE 0)

C26_OwnershipMoves ==
    /\ [][\A u, other \in Pointers :
             /\ (PointerMoveCtor(u, other) \/ (PointerMoveAssign(u, other) /\ u # other))
                   => Moved(u, other)
             /\ PointerMoveAssign(u, u) => uptr' = uptr]_vars
    /\ [](/\ \A u, v \in Live :
                (u # v /\ uptr.ptr_[u] # nullptr) => uptr.ptr_[u] # uptr.ptr_[v]
          /\ \A u \in Live : uptr.ptr_[u] \notin uptr.raw
          /\ \A o \in Heap :
                /\ uptr.deleted[o] <= 1
                /\ (o \in uptr.raw \/ \E u \in Live : uptr.ptr_[u] = o)
                      => uptr.deleted[o] = 0)

C26_Witness ==
    /\ \E u, v \in Live : uptr.ptr_[u] = nullptr /\ uptr.ptr_[v] = 2
    /\ \E u \in Pointers : uptr.life[u] = "dead"
    /\ uptr.raw # {}
    /\ \E o \in Heap : uptr.deleted[o] = 1

====
